---- MODULE Spec2Model ----
(***************************************************************************)
(* Model of validator_derive (src/validator_derive/src/lib.rs): the        *)
(* #[derive(Validate)] procedural macro.  The macro reads the attributes   *)
(* of a struct and of its fields, extracts the field validators and the    *)
(* schema validators, and emits a `validate` routine.  The model covers    *)
(* the extraction (a pure function of the declaration, which may abort     *)
(* the compilation) and one run of the emitted routine on one record.      *)
(***************************************************************************)
EXTENDS Integers, Sequences, FiniteSets, TLC

VARIABLES
    decl,     \* the struct declaration handed to the macro (syn::DeriveInput)
    pc,       \* "derive" | "aborted" | "ready" | "running" | "done"
    out,      \* what impl_validate produced: abort, or the three quoted lists
    vals,     \* the record instance validate is called on: field ident -> value
    step,     \* position in the body of the emitted validate routine
    errors,   \* `errors`, the accumulator of the emitted routine
    result,   \* `result` of the emitted routine
    log       \* what the emitted routine has evaluated so far, in order

vars == <<decl, pc, out, vals, step, errors, result, log>>

(***************************************************************************)
(* syn: literals, meta items, attributes, types, fields.                   *)
(***************************************************************************)
NoLit == [kind |-> "None", val |-> ""]
LitStr(s) == [kind |-> "Str", val |-> s]
LitBool(s) == [kind |-> "Bool", val |-> s]
LitInt(s) == [kind |-> "Int", val |-> s]

\* syn::Meta::Path, syn::Meta::NameValue, syn::Meta::List
P(name) == [m |-> "Path", name |-> name, lit |-> NoLit, nested |-> <<>>]
NV(name, lit) == [m |-> "NameValue", name |-> name, lit |-> lit, nested |-> <<>>]
L(name, items) == [m |-> "List", name |-> name, lit |-> NoLit, nested |-> items]

\* syn::Attribute with what attr.parse_meta() yields for it
AttrPath(path) == [path |-> path, form |-> "Path", nested |-> <<>>]
AttrNameValue(path) == [path |-> path, form |-> "NameValue", nested |-> <<>>]
AttrList(path, items) == [path |-> path, form |-> "List", nested |-> items]

\* syn::Type
TypePath(tokens) == [kind |-> "Path", tokens |-> tokens, lifetime |-> FALSE]
TypeReference(lt, tokens) == [kind |-> "Reference", tokens |-> tokens, lifetime |-> lt]
TypeGroup(tokens) == [kind |-> "Group", tokens |-> tokens, lifetime |-> FALSE]
TypeTuple(tokens) == [kind |-> "Tuple", tokens |-> tokens, lifetime |-> FALSE]

Field(ident, ty, attrs) == [ident |-> ident, ty |-> ty, attrs |-> attrs]

\* Option<String>
None == [some |-> FALSE, val |-> ""]
Some(s) == [some |-> TRUE, val |-> s]

(***************************************************************************)
(* mod lit (not in src/): the literal resolver of the specification, 4.1.  *)
(***************************************************************************)
lit_to_string(lit) == IF lit.kind = "Str" THEN Some(lit.val) ELSE None

lit_to_bool(lit) == IF lit.kind = "Bool" THEN Some(lit.val) ELSE None

lit_to_int(lit) == IF lit.kind = "Int" THEN Some(lit.val) ELSE None

(***************************************************************************)
(* find_fields_type: the type of each field, as a string.                  *)
(***************************************************************************)
\* TokenStream::to_string(): the tokens, separated by spaces.  A string is
\* kept as the sequence of its pieces until it is compared.
RECURSIVE tokens_to_string(_)
tokens_to_string(tokens) ==
    IF Len(tokens) <= 1 THEN tokens
    ELSE <<Head(tokens), " ">> \o tokens_to_string(Tail(tokens))

\* str::replace(' ', "")
replace_spaces(pieces) == SelectSeq(pieces, LAMBDA p : p # " ")

RECURSIVE concat(_)
concat(pieces) == IF pieces = <<>> THEN "" ELSE Head(pieces) \o concat(Tail(pieces))

type_supported(ty) == ty.kind \in {"Path", "Reference", "Group"}

field_type_name(ty) ==
    LET name == concat(replace_spaces(tokens_to_string(ty.tokens)))
    IN  IF ty.kind = "Reference" /\ ty.lifetime THEN "&" \o name ELSE name

find_fields_type(fields) ==
    IF \E i \in 1..Len(fields) : ~type_supported(fields[i].ty)
    THEN [abort |-> TRUE, msg |-> "Type not supported", types |-> <<>>]
    ELSE [abort |-> FALSE, msg |-> "",
          types |-> [id \in {fields[i].ident : i \in 1..Len(fields)} |->
                        LET last == CHOOSE i \in 1..Len(fields) :
                                        /\ fields[i].ident = id
                                        /\ \A j \in 1..Len(fields) :
                                               fields[j].ident = id => j <= i
                        IN  field_type_name(fields[last].ty)]]

\* HashMap::get
types_get(field_types, name) ==
    IF name \in DOMAIN field_types THEN Some(field_types[name]) ELSE None

(***************************************************************************)
(* mod asserts (not in src/): the type compatibility checker of the        *)
(* specification, 4.2.  Each is TRUE when the check passes and FALSE when  *)
(* it aborts the compilation.                                              *)
(***************************************************************************)
StringTypes == {"String", "&str"}
LenTypes == StringTypes \cup {"Vec<String>"}
RangeTypes == {"u32", "i64"}

assert_string_type(field_type) == field_type \in StringTypes

assert_has_len(field_type) == field_type \in LenTypes

assert_has_range(field_type) == field_type \in RangeTypes

assert_type_matches(field_type, other) == other.some /\ other.val = field_type

(***************************************************************************)
(* validator_types::Validator and mod validation (not in src/): the        *)
(* FieldValidation record and the argument extractors of the               *)
(* specification, 3 and 4.3.                                               *)
(***************************************************************************)
\* FieldValidation::new(validator)
FieldValidation(v, arg) ==
    [validator |-> v, arg |-> arg, bounds |-> {}, code |-> None, message |-> None]

Ok(validation) == [abort |-> FALSE, msg |-> "", validation |-> validation]
Err(msg) == [abort |-> TRUE, msg |-> msg, validation |-> FieldValidation("", "")]

\* code = "..." and message = "..." may accompany the arguments of a validator
RECURSIVE extract_args(_, _, _)
extract_args(meta_items, allowed, acc) ==
    IF acc.abort \/ meta_items = <<>> THEN acc
    ELSE LET item == Head(meta_items)
             v == acc.validation
             next ==
               IF item.m # "NameValue" THEN Err("unexpected item")
               ELSE IF item.name \in {"code", "message"} THEN
                    IF ~lit_to_string(item.lit).some THEN Err("invalid argument type")
                    ELSE IF item.name = "code"
                         THEN Ok([v EXCEPT !.code = lit_to_string(item.lit)])
                         ELSE Ok([v EXCEPT !.message = lit_to_string(item.lit)])
               ELSE IF item.name \notin allowed THEN Err("unknown argument")
               ELSE IF v.validator \in {"Length", "Range"} THEN
                    IF ~lit_to_int(item.lit).some THEN Err("invalid argument type")
                    ELSE Ok([v EXCEPT !.bounds = @ \cup {<<item.name, item.lit.val>>}])
               ELSE IF ~lit_to_string(item.lit).some THEN Err("invalid argument type")
                    ELSE Ok([v EXCEPT !.arg = item.lit.val])
         IN  extract_args(Tail(meta_items), allowed, next)

\* a length or a range with no bound at all is an error
require_bound(r) ==
    IF ~r.abort /\ r.validation.bounds = {}
    THEN Err("requires at least 1 argument out of min, max and equal")
    ELSE r

extract_length_validation(meta_items) ==
    require_bound(extract_args(meta_items, {"min", "max", "equal"},
                               Ok(FieldValidation("Length", ""))))

extract_range_validation(meta_items) ==
    require_bound(extract_args(meta_items, {"min", "max"},
                               Ok(FieldValidation("Range", ""))))

validator_of(name) ==
    CASE name = "email" -> "Email"
      [] name = "url" -> "Url"
      [] name = "phone" -> "Phone"
      [] name = "credit_card" -> "CreditCard"
      [] name = "non_control_character" -> "NonControlCharacter"
      [] name = "custom" -> "Custom"
      [] name = "contains" -> "Contains"
      [] name = "regex" -> "Regex"
      [] name = "must_match" -> "MustMatch"
      [] OTHER -> "Unknown"

extract_argless_validation(validator_name, meta_items) ==
    extract_args(meta_items, {}, Ok(FieldValidation(validator_of(validator_name), "")))

\* the one argument is required
require_arg(val_name, meta_items, r) ==
    IF ~r.abort /\ ~(\E i \in 1..Len(meta_items) : meta_items[i].name = val_name)
    THEN Err("Missing argument")
    ELSE r

extract_one_arg_validation(val_name, validator_name, meta_items) ==
    require_arg(val_name, meta_items,
                extract_args(meta_items, {val_name},
                             Ok(FieldValidation(validator_of(validator_name), ""))))

(***************************************************************************)
(* find_original_field_name: the name a serde attribute renames the field  *)
(* to.  `panic` is lit_to_string(lit).unwrap() on a literal that is no     *)
(* string.                                                                 *)
(***************************************************************************)
Found(name) == [panic |-> FALSE, some |-> name.some, val |-> name.val]
Panic == [panic |-> TRUE, some |-> FALSE, val |-> ""]

RECURSIVE find_original_field_name(_)
find_original_field_name(meta_items) ==
    IF meta_items = <<>> THEN Found(None)
    ELSE LET item == Head(meta_items)
         IN  CASE item.m = "Path" -> find_original_field_name(Tail(meta_items))
               [] item.m = "NameValue" ->
                    IF item.name = "rename"
                    THEN IF lit_to_string(item.lit).some
                         THEN Found(lit_to_string(item.lit))
                         ELSE Panic
                    ELSE find_original_field_name(Tail(meta_items))
               [] item.m = "List" -> find_original_field_name(item.nested)
               [] OTHER -> Panic

(***************************************************************************)
(* find_validators_for_field: the external name of a field and the list    *)
(* of its validators, or the abort of the compilation.                     *)
(***************************************************************************)
\* the state of the loops: the validators pushed so far, or the abort
Pushed(validators) == [abort |-> FALSE, msg |-> "", validators |-> validators]
Abort(msg) == [abort |-> TRUE, msg |-> msg, validators |-> <<>>]

\* validators.push(extract_..._validation(...)): the extractor may abort
PushExtracted(validators, r) ==
    IF r.abort THEN Abort(r.msg) ELSE Pushed(Append(validators, r.validation))

\* email, url, required, required_nested
path_validator(name, field_type, validators) ==
    CASE name = "email" ->
           IF assert_string_type(field_type)
           THEN Pushed(Append(validators, FieldValidation("Email", "")))
           ELSE Abort("email: not a string type")
      [] name = "url" ->
           IF assert_string_type(field_type)
           THEN Pushed(Append(validators, FieldValidation("Url", "")))
           ELSE Abort("url: not a string type")
      [] name = "required" ->
           Pushed(Append(validators, FieldValidation("Required", "")))
      [] name = "required_nested" ->
           Pushed(validators \o <<FieldValidation("Required", ""),
                                  FieldValidation("Nested", "")>>)
      [] OTHER -> Abort("Unexpected validator")

\* custom, contains, must_match, regex
name_value_validator(name, lit, field_type, field_types, validators) ==
    CASE name \in {"custom", "contains", "regex"} ->
           IF lit_to_string(lit).some
           THEN Pushed(Append(validators,
                              FieldValidation(validator_of(name), lit_to_string(lit).val)))
           ELSE Abort("only strings are allowed")
      [] name = "must_match" ->
           IF lit_to_string(lit).some
           THEN IF assert_type_matches(field_type,
                                       types_get(field_types, lit_to_string(lit).val))
                THEN Pushed(Append(validators,
                                   FieldValidation("MustMatch", lit_to_string(lit).val)))
                ELSE Abort("must_match: types do not match")
           ELSE Abort("only strings are allowed")
      [] OTHER -> Abort("unexpected name value validator")

\* must_match(other = "...") without the check of the type
must_match_list_unchecked(r, field_type, field_types, validators) ==
    IF r.abort THEN Abort(r.msg) ELSE Pushed(Append(validators, r.validation))

\* must_match(other = "..."): the validation is extracted, then its type checked
must_match_list(r, field_type, field_types, validators) ==
    IF r.abort THEN Abort(r.msg)
    ELSE IF r.validation.validator = "MustMatch"
            /\ ~assert_type_matches(field_type, types_get(field_types, r.validation.arg))
    THEN Abort("must_match: types do not match")
    ELSE Pushed(Append(validators, r.validation))

\* validators with several args
list_validator(name, meta_items, field_type, field_types, validators) ==
    CASE name = "length" ->
           IF assert_has_len(field_type)
           THEN PushExtracted(validators, extract_length_validation(meta_items))
           ELSE Abort("length: type has no length")
      [] name = "range" ->
           IF assert_has_range(field_type)
           THEN PushExtracted(validators, extract_range_validation(meta_items))
           ELSE Abort("range: type has no range")
      [] name \in {"email", "url", "phone", "credit_card", "non_control_character"} ->
           PushExtracted(validators, extract_argless_validation(name, meta_items))
      [] name = "custom" ->
           PushExtracted(validators, extract_one_arg_validation("function", name, meta_items))
      [] name = "contains" ->
           PushExtracted(validators, extract_one_arg_validation("pattern", name, meta_items))
      [] name = "regex" ->
           PushExtracted(validators, extract_one_arg_validation("path", name, meta_items))
      [] name = "must_match" ->
           must_match_list(extract_one_arg_validation("other", name, meta_items),
                           field_type, field_types, validators)
      [] OTHER -> Abort("unexpected list validator")

\* for meta_item in meta_items { match *meta_item { ... } }
RECURSIVE validate_meta_items(_, _, _, _)
validate_meta_items(meta_items, field_type, field_types, acc) ==
    IF acc.abort \/ meta_items = <<>> THEN acc
    ELSE LET item == Head(meta_items)
             next ==
               CASE item.m = "Path" ->
                      path_validator(item.name, field_type, acc.validators)
                 [] item.m = "NameValue" ->
                      name_value_validator(item.name, item.lit, field_type, field_types,
                                           acc.validators)
                 [] item.m = "List" ->
                      list_validator(item.name, item.nested, field_type, field_types,
                                     acc.validators)
                 [] OTHER -> Abort("Found a non Meta while looking for validators")
         IN  validate_meta_items(Tail(meta_items), field_type, field_types, next)

\* a field whose validate attributes give no validator is let through
needs_validator_never(has_validate, validators) == FALSE

\* if has_validate && validators.is_empty()
needs_validator(has_validate, validators) == has_validate /\ validators = <<>>

\* the name and the validators, or the abort
Extracted(field_ident, validators, has_validate) ==
    [abort |-> FALSE, msg |-> "", name |-> field_ident, validators |-> validators,
     has_validate |-> has_validate]
Aborted(msg) ==
    [abort |-> TRUE, msg |-> msg, name |-> "", validators |-> <<>>, has_validate |-> FALSE]

\* if attr.path == serde: the rename, if the attribute holds one; `continue`
serde_attr(s, st) ==
    IF s.panic THEN Aborted("called Option::unwrap() on a None value")
    ELSE Extracted(IF s.some THEN s.val ELSE st.name, st.validators, st.has_validate)

\* the end of a turn that did not `continue`: the check that a field with a
\* validate attribute has a validator
validate_attr(r, st, has_validate) ==
    IF r.abort THEN Aborted(r.msg)
    ELSE IF needs_validator(has_validate, r.validators)
    THEN Aborted("it needs at least one validator")
    ELSE Extracted(st.name, r.validators, has_validate)

\* one turn of `for attr in &field.attrs`
field_attr(attr, field_type, field_types, st) ==
    IF attr.path \notin {"validate", "serde"} THEN st
    ELSE CASE attr.form = "List" /\ attr.path = "serde" ->
                serde_attr(find_original_field_name(attr.nested), st)
           [] attr.form = "List" /\ attr.path # "serde" ->
                validate_attr(validate_meta_items(attr.nested, field_type, field_types,
                                                  Pushed(st.validators)),
                              st, st.has_validate \/ attr.path = "validate")
           [] attr.form = "Path" ->
                validate_attr(Pushed(Append(st.validators, FieldValidation("Nested", ""))),
                              st, st.has_validate \/ attr.path = "validate")
           [] OTHER -> Aborted("Unexpected name=value argument")

RECURSIVE field_attrs(_, _, _, _)
field_attrs(attrs, field_type, field_types, st) ==
    IF st.abort \/ attrs = <<>> THEN st
    ELSE field_attrs(Tail(attrs), field_type, field_types,
                     field_attr(Head(attrs), field_type, field_types, st))

find_validators_for_field(field, field_types) ==
    field_attrs(field.attrs, field_types[field.ident], field_types,
                Extracted(field.ident, <<>>, FALSE))

(***************************************************************************)
(* find_struct_validation, find_struct_validations: the schema validators  *)
(* declared on the struct.                                                 *)
(***************************************************************************)
SchemaValidation(function, skip_on_field_errors, code, message) ==
    [function |-> function, skip_on_field_errors |-> skip_on_field_errors,
     code |-> code, message |-> message]

SchemaOk(v) == [abort |-> FALSE, msg |-> "", validation |-> v]
SchemaErr(msg) ==
    [abort |-> TRUE, msg |-> msg, validation |-> SchemaValidation("", FALSE, None, None)]

\* the defaults with skip_on_field_errors = false
schema_defaults_no_skip == SchemaValidation("", FALSE, None, None)

\* let mut function = String::new(); let mut skip_on_field_errors = true;
\* let mut code = None; let mut message = None;
schema_defaults == SchemaValidation("", TRUE, None, None)

\* one turn of `for arg in nested`
schema_arg(arg, v) ==
    IF arg.m # "NameValue" THEN SchemaErr("Unexpected args")
    ELSE CASE arg.name = "function" ->
                IF lit_to_string(arg.lit).some
                THEN SchemaOk([v EXCEPT !.function = lit_to_string(arg.lit).val])
                ELSE SchemaErr("invalid argument type for function")
           [] arg.name = "skip_on_field_errors" ->
                IF lit_to_bool(arg.lit).some
                THEN SchemaOk([v EXCEPT !.skip_on_field_errors =
                                            (lit_to_bool(arg.lit).val = "true")])
                ELSE SchemaErr("invalid argument type for skip_on_field_errors")
           [] arg.name = "code" ->
                IF lit_to_string(arg.lit).some
                THEN SchemaOk([v EXCEPT !.code = lit_to_string(arg.lit)])
                ELSE SchemaErr("invalid argument type for code")
           [] arg.name = "message" ->
                IF lit_to_string(arg.lit).some
                THEN SchemaOk([v EXCEPT !.message = lit_to_string(arg.lit)])
                ELSE SchemaErr("invalid argument type for message")
           [] OTHER -> SchemaErr("Unknown argument")

RECURSIVE schema_args(_, _)
schema_args(nested, acc) ==
    IF acc.abort \/ nested = <<>> THEN acc
    ELSE schema_args(Tail(nested), schema_arg(Head(nested), acc.validation))

\* any name taken for schema
schema_ident_any(ident) == TRUE

\* if ident != "schema"
schema_ident(ident) == ident = "schema"

\* the item of the attribute that find_struct_validation reads: nested[0]
schema_item(nested) == nested[1]

\* if function.is_empty()
require_function(r) ==
    IF ~r.abort /\ r.validation.function = "" THEN SchemaErr("function is required") ELSE r

schema_meta(item) ==
    IF item.m # "List" THEN SchemaErr("Unexpected struct validator")
    ELSE IF ~schema_ident(item.name)
    THEN SchemaErr("Only schema is allowed as validator on a struct")
    ELSE require_function(schema_args(item.nested, SchemaOk(schema_defaults)))

find_struct_validation(attr) ==
    IF attr.form # "List" THEN SchemaErr("Unexpected struct validator")
    ELSE IF attr.nested = <<>> THEN SchemaErr("index out of bounds")
    ELSE schema_meta(schema_item(attr.nested))

\* .filter(|attribute| attribute.path == parse_quote!(validate)).map(...).collect()
collect(r, rest) ==
    IF r.abort THEN [abort |-> TRUE, msg |-> r.msg, validations |-> <<>>]
    ELSE IF rest.abort THEN rest
    ELSE [abort |-> FALSE, msg |-> "", validations |-> <<r.validation>> \o rest.validations]

RECURSIVE find_struct_validations(_)
find_struct_validations(struct_attrs) ==
    IF struct_attrs = <<>> THEN [abort |-> FALSE, msg |-> "", validations |-> <<>>]
    ELSE IF Head(struct_attrs).path # "validate"
    THEN find_struct_validations(Tail(struct_attrs))
    ELSE collect(find_struct_validation(Head(struct_attrs)),
                 find_struct_validations(Tail(struct_attrs)))

(***************************************************************************)
(* impl_validate: the expansion of #[derive(Validate)].                    *)
(***************************************************************************)
\* mod quoting (not in src/), quote_field_validation: a Nested validator is
\* quoted into nested_validations, every other one into validations
\* (specification, 4.5 steps 2 and 5).  A quoted validation keeps the field,
\* the name FieldQuoter::new was given and the validation.
quote_field_validation(field_ident, name, validation, lists) ==
    LET q == [ident |-> field_ident, name |-> name, validation |-> validation]
    IN  IF validation.validator = "Nested"
        THEN [lists EXCEPT !.nested_validations = Append(@, q)]
        ELSE [lists EXCEPT !.validations = Append(@, q)]

RECURSIVE quote_field_validations(_, _, _, _)
quote_field_validations(field_ident, name, field_validations, lists) ==
    IF field_validations = <<>> THEN lists
    ELSE quote_field_validations(field_ident, name, Tail(field_validations),
             quote_field_validation(field_ident, name, Head(field_validations), lists))

Expansion(validations, nested_validations, schema_validations) ==
    [abort |-> FALSE, msg |-> "", validations |-> validations,
     nested_validations |-> nested_validations,
     schema_validations |-> schema_validations]
CompileError(msg) ==
    [abort |-> TRUE, msg |-> msg, validations |-> <<>>, nested_validations |-> <<>>,
     schema_validations |-> <<>>]

\* for validation in &field_validations { quote_field_validation(...) }
quote_field(field, r, lists) ==
    IF r.abort THEN CompileError(r.msg)
    ELSE quote_field_validations(field.ident, r.name, r.validators, lists)

\* for field in &fields { ... }
RECURSIVE impl_validate_fields(_, _, _)
impl_validate_fields(fields, field_types, lists) ==
    IF lists.abort \/ fields = <<>> THEN lists
    ELSE impl_validate_fields(Tail(fields), field_types,
             quote_field(Head(fields), find_validators_for_field(Head(fields), field_types),
                         lists))

\* quote_schema_validations(&find_struct_validations(&ast.attrs))
with_schema_validations(lists, schema) ==
    IF lists.abort THEN lists
    ELSE IF schema.abort THEN CompileError(schema.msg)
    ELSE [lists EXCEPT !.schema_validations = schema.validations]

with_field_types(ast, field_types) ==
    IF field_types.abort THEN CompileError(field_types.msg)
    ELSE with_schema_validations(
             impl_validate_fields(ast.fields, field_types.types, Expansion(<<>>, <<>>, <<>>)),
             find_struct_validations(ast.attrs))

impl_validate(ast) == with_field_types(ast, find_fields_type(ast.fields))

\* the body with the nested validations quoted before the schema validations
validate_body_nested_first ==
    <<"validations", "nested_validations", "schema_validations", "result">>

\* the body with the result taken before the schema validations
validate_body_result_first ==
    <<"validations", "result", "schema_validations", "nested_validations">>

\* the body of the emitted validate, after `let mut errors = ...::new();`
validate_body ==
    <<"validations", "schema_validations", "result", "nested_validations">>

(***************************************************************************)
(* The emitted validate routine.  The quoted pieces come from mod quoting  *)
(* (not in src/); what each does when run is the specification's 4.5.      *)
(***************************************************************************)
\* a field of the record holds no value, a value that passes, a value that
\* fails the field's own validators, or a sub-record that fails its validate
FieldValues == {"absent", "valid", "shapebad", "subbad"}

default_code(validator) ==
    CASE validator = "Email" -> "email"
      [] validator = "Url" -> "url"
      [] validator = "Required" -> "required"
      [] validator = "Length" -> "length"
      [] validator = "Range" -> "range"
      [] validator = "Custom" -> "custom"
      [] validator = "Contains" -> "contains"
      [] validator = "Regex" -> "regex"
      [] validator = "MustMatch" -> "must_match"
      [] OTHER -> "invalid"

error_code(validation) ==
    IF validation.code.some THEN validation.code.val
    ELSE default_code(validation.validator)

\* errors.add(name, err), with the field that raised it
ValidationError(key, code, ident) == [key |-> key, code |-> code, ident |-> ident]

Event(ev, ident, what, idx) == [ev |-> ev, ident |-> ident, what |-> what, idx |-> idx]

\* Required fails on a field that holds no value
required_failed(validations, ident, v) ==
    /\ v[ident] = "absent"
    /\ \E i \in 1..Len(validations) :
           validations[i].ident = ident /\ validations[i].validation.validator = "Required"

\* a field validation that a failed Required suppresses only when it is
\* evaluated after Required
run_validation_after_required(q, validations, v, acc) ==
    IF q.validation.validator = "Required"
    THEN << IF v[q.ident] = "absent"
            THEN Append(acc[1], ValidationError(q.name, error_code(q.validation), q.ident))
            ELSE acc[1],
            Append(acc[2], Event("field", q.ident, "Required", 0)) >>
    ELSE IF /\ v[q.ident] = "absent"
            /\ \E j \in 1..Len(acc[2]) :
                   acc[2][j].ident = q.ident /\ acc[2][j].what = "Required"
    THEN acc
    ELSE << IF v[q.ident] = "shapebad"
            THEN Append(acc[1], ValidationError(q.name, error_code(q.validation), q.ident))
            ELSE acc[1],
            Append(acc[2], Event("field", q.ident, q.validation.validator, 0)) >>

\* 4.5 step 2 and 8: one quoted field validation.  Required is evaluated on
\* every value; when it fails, no other validator of the field is evaluated.
run_validation(q, validations, v, acc) ==
    IF q.validation.validator = "Required"
    THEN << IF v[q.ident] = "absent"
            THEN Append(acc[1], ValidationError(q.name, error_code(q.validation), q.ident))
            ELSE acc[1],
            Append(acc[2], Event("field", q.ident, "Required", 0)) >>
    ELSE IF required_failed(validations, q.ident, v) THEN acc
    ELSE << IF v[q.ident] = "shapebad"
            THEN Append(acc[1], ValidationError(q.name, error_code(q.validation), q.ident))
            ELSE acc[1],
            Append(acc[2], Event("field", q.ident, q.validation.validator, 0)) >>

RECURSIVE run_validations(_, _, _, _)
run_validations(qs, validations, v, acc) ==
    IF qs = <<>> THEN acc
    ELSE run_validations(Tail(qs), validations, v,
                         run_validation(Head(qs), validations, v, acc))

\* 4.5 steps 3 and 4: the schema validation at place i; returned[i] says
\* whether the named function returned an error.  The log keeps the function
\* and what it returned.
run_schema_validation(i, sv, has_field_errors, returned, acc) ==
    IF sv.skip_on_field_errors /\ has_field_errors
    THEN <<acc[1], Append(acc[2], Event("schema_skip", sv.function, "skipped", i))>>
    ELSE << IF returned[i]
            THEN Append(acc[1], ValidationError("__all__",
                                    IF sv.code.some THEN sv.code.val ELSE sv.function, ""))
            ELSE acc[1],
            Append(acc[2], Event("schema_call", sv.function,
                                 IF returned[i] THEN "err" ELSE "ok", i)) >>

RECURSIVE run_schema_validations(_, _, _, _, _)
run_schema_validations(i, svs, has_field_errors, returned, acc) ==
    IF i > Len(svs) THEN acc
    ELSE run_schema_validations(i + 1, svs, has_field_errors, returned,
             run_schema_validation(i, svs[i], has_field_errors, returned, acc))

\* let mut result = if errors.is_empty() { Ok(()) } else { Err(errors) };
result_of(errs) == [ok |-> errs = <<>>, errors |-> errs]

\* 4.5 step 5: the sub-record's validate, its errors merged under the name
run_nested_validation(q, v, acc) ==
    IF v[q.ident] = "absent" THEN acc
    ELSE << IF v[q.ident] = "subbad"
            THEN [ok |-> FALSE,
                  errors |-> Append(acc[1].errors,
                                    ValidationError(q.name, "nested", q.ident))]
            ELSE acc[1],
            Append(acc[2], Event("nested", q.ident, "Nested", 0)) >>

RECURSIVE run_nested_validations(_, _, _)
run_nested_validations(qs, v, acc) ==
    IF qs = <<>> THEN acc
    ELSE run_nested_validations(Tail(qs), v, run_nested_validation(Head(qs), v, acc))

(***************************************************************************)
(* The declarations the macro is run on.                                   *)
(***************************************************************************)
MaxAttrs == 2          \* attributes on the field under extraction
MaxStructAttrs == 2    \* attributes on the struct

SeqsUpTo(S, n) == UNION {[1..k -> S] : k \in 0..n}

Validate(items) == AttrList("validate", items)
Serde(items) == AttrList("serde", items)

TyString == TypePath(<<"String">>)
TyBool == TypePath(<<"bool">>)
TyVec == TypePath(<<"Vec", "<", "String", ">">>)
TyOptSub == TypePath(<<"Option", "<", "Sub", ">">>)
TyOptString == TypePath(<<"Option", "<", "String", ">">>)
TyRefStr == TypeReference(TRUE, <<"str">>)
TyGroupString == TypeGroup(<<"String">>)
TyTuple == TypeTuple(<<"(", "u8", ",", "u8", ")">>)

\* the validation intents of a field
FieldIntents ==
    { P("email"), P("required"), P("required_nested"), P("bogus"),
      NV("must_match", LitStr("b")), NV("must_match", LitStr("zz")),
      NV("custom", LitStr("f")),
      L("email", <<>>), L("email", <<NV("code", LitStr("c"))>>),
      L("length", <<NV("min", LitInt("1"))>>), L("length", <<>>),
      L("must_match", <<NV("other", LitStr("b"))>>),
      L("must_match", <<NV("other", LitStr("zz"))>>),
      L("must_match", <<NV("other", LitStr("b")), NV("code", LitInt("1"))>>),
      L("must_match", <<>>) }

\* the attributes of a field: validate(...) with no, one or two intents, a
\* bare validate, validate = "...", serde(...) with and without a rename,
\* with a rename after, inside and two levels inside a grouping item, a bare
\* serde, and an attribute that is neither
FieldAttrs ==
    {Validate(<<i>>) : i \in FieldIntents}
    \cup { Validate(<<>>),
           Validate(<<P("required"), P("email")>>),
           Validate(<<P("email"), P("required")>>),
           AttrPath("validate"), AttrNameValue("validate"),
           Serde(<<NV("rename", LitStr("x"))>>),
           Serde(<<NV("rename", LitStr("y"))>>),
           Serde(<<L("g", <<NV("rename", LitStr("y"))>>)>>),
           Serde(<<L("g", <<L("h", <<NV("rename", LitStr("y"))>>)>>)>>),
           Serde(<<P("default")>>),
           Serde(<<L("bound", <<NV("deserialize", LitStr("T"))>>),
                   NV("rename", LitStr("x"))>>),
           AttrPath("serde"), AttrNameValue("doc") }

\* the schema intents of a struct
SchemaF == L("schema", <<NV("function", LitStr("f"))>>)
SchemaG ==
    L("schema", <<NV("function", LitStr("g")),
                  NV("skip_on_field_errors", LitBool("false"))>>)

StructIntents ==
    { SchemaF, SchemaG,
      L("schema", <<NV("code", LitStr("c")), NV("function", LitStr("f")),
                    NV("message", LitStr("m"))>>),
      L("schema", <<>>),
      L("schema", <<NV("function", LitStr(""))>>),
      L("schema", <<NV("function", LitInt("1"))>>),
      L("schema", <<NV("function", LitStr("f")), NV("bogus", LitStr("v"))>>),
      L("schema", <<NV("skip_on_field_errors", LitBool("false"))>>),
      L("schema", <<P("function")>>),
      L("custom", <<NV("function", LitStr("f"))>>),
      P("schema") }

StructAttrs ==
    {Validate(<<i>>) : i \in StructIntents}
    \cup { Validate(<<>>), Validate(<<SchemaF, SchemaG>>), Validate(<<SchemaG, SchemaF>>),
           Validate(<<SchemaF, L("custom", <<NV("function", LitStr("f"))>>)>>),
           AttrPath("validate"), AttrNameValue("doc") }

Struct(fields, attrs) == [fields |-> fields, attrs |-> attrs]

\* the declarations the extraction is checked on: field a carries the
\* attributes, or the struct does
FieldDecl(ta, tb, attrs) == Struct(<<Field("a", ta, attrs), Field("b", tb, <<>>)>>, <<>>)

StructDecl(attrs) == Struct(<<Field("a", TyString, <<>>), Field("b", TyString, <<>>)>>, attrs)

\* the fields of the records validate is run on
RunFields(ident) ==
    { Field(ident, TyString, <<>>),
      Field(ident, TyString, <<Validate(<<P("email")>>)>>),
      Field(ident, TyString, <<Serde(<<NV("rename", LitStr("x"))>>),
                               Validate(<<P("email")>>)>>),
      Field(ident, TyString, <<Validate(<<P("email")>>),
                               Serde(<<NV("rename", LitStr("x"))>>)>>),
      Field(ident, TyString, <<Serde(<<L("bound", <<NV("deserialize", LitStr("T"))>>),
                                       NV("rename", LitStr("x"))>>),
                               Validate(<<P("email")>>)>>),
      Field(ident, TyOptString, <<Validate(<<P("required"), NV("custom", LitStr("f"))>>)>>),
      Field(ident, TyOptString, <<Validate(<<NV("custom", LitStr("f")), P("required")>>)>>),
      Field(ident, TyOptSub, <<Validate(<<P("required_nested")>>)>>),
      Field(ident, TyOptSub, <<AttrPath("validate")>>),
      Field(ident, TyOptSub, <<AttrPath("validate"), Validate(<<P("required")>>)>>),
      Field(ident, TyOptSub, <<Validate(<<P("required_nested")>>),
                               Serde(<<NV("rename", LitStr("x"))>>)>>) }

RunStructAttrs ==
    { <<>>, <<Validate(<<SchemaF>>)>>, <<Validate(<<SchemaG>>)>>,
      <<Validate(<<SchemaF>>), Validate(<<SchemaG>>)>>,
      <<Validate(<<SchemaG>>), AttrNameValue("doc"), Validate(<<SchemaF>>)>> }

RunDecls ==
    { Struct(<<fa, fb>>, attrs) :
          fa \in RunFields("a"), fb \in RunFields("b"), attrs \in RunStructAttrs }

FieldIdents(ast) == {ast.fields[i].ident : i \in 1..Len(ast.fields)}

(***************************************************************************)
(* The state machine: the macro expands the declaration; the emitted       *)
(* validate is called on a record and runs its body piece by piece.        *)
(***************************************************************************)
\* the macro has not run yet on the declaration it is handed
Start ==
    /\ pc = "derive"
    /\ out = Expansion(<<>>, <<>>, <<>>)
    /\ vals = [id \in FieldIdents(decl) |-> "valid"]
    /\ step = 0
    /\ errors = <<>>
    /\ result = result_of(<<>>)
    /\ log = <<>>

Init == decl \in RunDecls /\ Start

InitCompile ==
    /\ \/ \E attrs \in SeqsUpTo(FieldAttrs, MaxAttrs) :
              \E ta \in {TyString, TyBool, TyRefStr, TyVec, TyTuple} :
                  \E tb \in {TyString, TyGroupString, TyBool} :
                      decl = FieldDecl(ta, tb, attrs)
       \/ \E attrs \in SeqsUpTo(StructAttrs, MaxStructAttrs) : decl = StructDecl(attrs)
    /\ Start

\* derive_validation: impl_validate(&ast)
Derive ==
    /\ pc = "derive"
    /\ out' = impl_validate(decl)
    /\ pc' = IF out'.abort THEN "aborted" ELSE "ready"
    /\ UNCHANGED <<decl, vals, step, errors, result, log>>

\* fn validate(&self): let mut errors = ValidationErrors::new();
Call ==
    /\ pc = "ready"
    /\ vals' \in [FieldIdents(decl) -> FieldValues]
    /\ errors' = <<>>
    /\ step' = 1
    /\ pc' = "running"
    /\ UNCHANGED <<decl, out, result, log>>

Running(piece) == pc = "running" /\ step <= Len(validate_body) /\ validate_body[step] = piece

\* what a piece of the body leaves in errors (or result) and in the log
ErrorsAndLog(r) == errors' = r[1] /\ log' = r[2]
ResultAndLog(r) == result' = r[1] /\ log' = r[2]

\* #(#validations)*
RunValidations ==
    /\ Running("validations")
    /\ ErrorsAndLog(run_validations(out.validations, out.validations, vals,
                                    <<errors, log>>))
    /\ step' = step + 1
    /\ UNCHANGED <<decl, pc, out, vals, result>>

\* #(#schema_validations)*
RunSchemaValidations ==
    /\ Running("schema_validations")
    /\ \E returned \in [1..Len(out.schema_validations) -> BOOLEAN] :
           ErrorsAndLog(run_schema_validations(1, out.schema_validations, errors # <<>>,
                                               returned, <<errors, log>>))
    /\ step' = step + 1
    /\ UNCHANGED <<decl, pc, out, vals, result>>

\* let mut result = ...
SetResult ==
    /\ Running("result")
    /\ result' = result_of(errors)
    /\ step' = step + 1
    /\ UNCHANGED <<decl, pc, out, vals, errors, log>>

\* #(#nested_validations)*
RunNestedValidations ==
    /\ Running("nested_validations")
    /\ ResultAndLog(run_nested_validations(out.nested_validations, vals,
                                           <<result, log>>))
    /\ step' = step + 1
    /\ UNCHANGED <<decl, pc, out, vals, errors>>

\* result
Return ==
    /\ pc = "running"
    /\ step > Len(validate_body)
    /\ pc' = "done"
    /\ UNCHANGED <<decl, out, vals, step, errors, result, log>>

Next ==
    \/ Derive
    \/ Call
    \/ RunValidations
    \/ RunSchemaValidations
    \/ SetResult
    \/ RunNestedValidations
    \/ Return

Spec == Init /\ [][Next]_vars

SpecCompile == InitCompile /\ [][Derive]_vars

(***************************************************************************)
(* What the properties read off a state.                                   *)
(***************************************************************************)
Compiled == pc \notin {"derive", "aborted"}

Events(ev) == {i \in 1..Len(log) : log[i].ev = ev}

SchemaEvents == Events("schema_call") \cup Events("schema_skip")

\* the validate attributes of the struct, in declaration order
ValidateAttrs(attrs) == SelectSeq(attrs, LAMBDA a : a.path = "validate")

DeclaresArg(item, name) == \E i \in 1..Len(item.nested) : item.nested[i].name = name

\* the field validators of the record that fail on the values it holds
FieldFailures ==
    {i \in 1..Len(out.validations) :
        LET q == out.validations[i]
        IN  IF q.validation.validator = "Required" THEN vals[q.ident] = "absent"
            ELSE vals[q.ident] = "shapebad"}

\* the fields whose sub-record fails its own validate
NestedFailures ==
    {i \in 1..Len(out.nested_validations) : vals[out.nested_validations[i].ident] = "subbad"}

\* the errors the field validators have recorded
FieldErrors(errs) == {i \in 1..Len(errs) : errs[i].ident # "" /\ errs[i].code # "nested"}

\* C1: nested sub-record validation runs last.  Every sub-record validation
\* in the log comes after a run or a skip of every schema validator and after
\* every field validator, wherever the Nested validator and its field stand;
\* and a schema validator is skipped only for an error of the record's own
\* validators, recorded before it, never for a failing sub-record.
C1_NestedRunsLast ==
    /\ \A n \in Events("nested") :
          /\ \A k \in 1..Len(out.schema_validations) :
                 \E j \in SchemaEvents : j < n /\ log[j].idx = k
          /\ \A j \in Events("field") \cup SchemaEvents : j < n
    /\ \A j \in Events("schema_skip") :
          \/ FieldFailures # {}
          \/ \E i \in Events("schema_call") : i < j /\ log[i].what = "err"

\* a record whose first field declares Nested before Required holds a failing
\* sub-record there, and the schema validator f has been called
C1_Witness ==
    /\ pc = "done"
    /\ decl.fields[1].attrs = <<AttrPath("validate"), Validate(<<P("required")>>)>>
    /\ vals["a"] = "subbad"
    /\ \E n \in Events("nested") : log[n].ident = "a"
    /\ \E j \in Events("schema_call") : log[j].ident = "f"
    /\ ~result.ok

\* C2: a schema validation with skip_on_field_errors = true, which is the
\* value of an intent that does not declare it, does not call its function
\* when the field validators recorded an error; one with skip_on_field_errors
\* = false has called its function in every finished validate.
C2_SkipOnFieldErrors ==
    Compiled =>
        \A k \in 1..Len(out.schema_validations) :
            LET sv == out.schema_validations[k]
                intent == ValidateAttrs(decl.attrs)[k].nested[1]
            IN  /\ ~DeclaresArg(intent, "skip_on_field_errors") => sv.skip_on_field_errors
                /\ (sv.skip_on_field_errors /\ FieldErrors(errors) # {}) =>
                       ~\E j \in Events("schema_call") : log[j].idx = k
                /\ (~sv.skip_on_field_errors /\ pc = "done") =>
                       \E j \in Events("schema_call") : log[j].idx = k

\* a field error was recorded; f, which declares no skip_on_field_errors, was
\* skipped and g, which declares it false, was called
C2_Witness ==
    /\ pc = "done"
    /\ FieldErrors(errors) # {}
    /\ \E j \in Events("schema_skip") : log[j].ident = "f"
    /\ \E j \in Events("schema_call") : log[j].ident = "g"

\* C3: validate returns Ok exactly when no field validator, no schema
\* function and no sub-record failed, that is when the errors it holds after
\* the three phases are none.
C3_OkIffNoErrors ==
    pc = "done" =>
        /\ result.ok <=> result.errors = <<>>
        /\ result.ok <=> /\ FieldFailures = {}
                         /\ ~\E j \in Events("schema_call") : log[j].what = "err"
                         /\ NestedFailures = {}

\* the only failure of the record is that of a sub-record, and validate
\* returns an error
C3_Witness ==
    /\ pc = "done"
    /\ NestedFailures # {}
    /\ FieldFailures = {}
    /\ errors = <<>>
    /\ ~result.ok

\* the fields whose Required validator fails
RequiredFailed ==
    {q.ident : q \in {out.validations[i] : i \in {j \in FieldFailures :
                          out.validations[j].validation.validator = "Required"}}}

Fields == {decl.fields[i] : i \in 1..Len(decl.fields)}

\* the intents of the validate(...) attributes of a field or of a struct
Intents(attrs) ==
    UNION { {attrs[i].nested[j] : j \in 1..Len(attrs[i].nested)} :
              i \in {k \in 1..Len(attrs) :
                        attrs[k].path = "validate" /\ attrs[k].form = "List"} }

\* the field declares validator `name`, bare or with an argument list
DeclaresValidator(f, name) ==
    \E item \in Intents(f.attrs) : item.name = name /\ item.m \in {"Path", "List"}

\* the quoted validations of a field
Quoted(ident) ==
    {out.validations[i] : i \in {k \in 1..Len(out.validations) :
                                     out.validations[k].ident = ident}}
    \cup {out.nested_validations[i] : i \in {k \in 1..Len(out.nested_validations) :
                                                out.nested_validations[k].ident = ident}}

\* C5: email, in each shape it can be declared in, on a field whose type is
\* not a string type aborts the compilation, and so does length on a field
\* whose type has no length.
C5_TypeChecked ==
    pc # "derive" =>
        \A f \in Fields :
            /\ (DeclaresValidator(f, "email") /\ field_type_name(f.ty) \notin StringTypes)
                   => out.abort
            /\ (DeclaresValidator(f, "length") /\ field_type_name(f.ty) \notin LenTypes)
                   => out.abort

\* the fields that the must_match intents of a field name
MustMatchOthers(f) ==
    {item.lit.val : item \in {i \in Intents(f.attrs) :
         i.m = "NameValue" /\ i.name = "must_match" /\ i.lit.kind = "Str"}}
    \cup UNION { {item.nested[j].lit.val :
                     j \in {k \in 1..Len(item.nested) :
                               item.nested[k].name = "other"
                               /\ item.nested[k].lit.kind = "Str"}} :
                 item \in {i \in Intents(f.attrs) : i.m = "List" /\ i.name = "must_match"} }

\* the field `other` exists and its type reads as the type of f does
SameType(f, other) ==
    \E g \in Fields : g.ident = other /\ field_type_name(g.ty) = field_type_name(f.ty)

\* C6: must_match, in both shapes, aborts the compilation when the field it
\* names does not exist or has another type; on a field that declares nothing
\* else, with no argument but the field it names, it compiles to the one
\* validator MustMatch(other) when the field exists with the same type.
C6_MustMatchTypes ==
    pc # "derive" =>
        \A f \in Fields : \A other \in MustMatchOthers(f) :
            /\ ~SameType(f, other) => out.abort
            /\ ( /\ SameType(f, other)
                 /\ Len(f.attrs) = 1 /\ Len(f.attrs[1].nested) = 1
                 /\ Len(f.attrs[1].nested[1].nested) <= 1
                 /\ \A g \in Fields : type_supported(g.ty) )
               => /\ ~out.abort
                  /\ Quoted(f.ident) = {[ident |-> f.ident, name |-> f.ident,
                                         validation |-> FieldValidation("MustMatch", other)]}

\* field a: String declares must_match(other = "b"), b is a String written in
\* a group, and the expansion holds MustMatch(b)
C6_Witness ==
    /\ pc = "ready"
    /\ decl.fields[1].ty = TyString /\ decl.fields[2].ty = TyGroupString
    /\ decl.fields[1].attrs = <<Validate(<<L("must_match", <<NV("other", LitStr("b"))>>)>>)>>
    /\ Len(out.validations) = 1
    /\ out.validations[1].validation.validator = "MustMatch"
    /\ out.validations[1].validation.arg = "b"

\* the names the serde(...) attributes of a field rename it to
Renames(f) ==
    UNION { {f.attrs[i].nested[j].lit.val :
                j \in {k \in 1..Len(f.attrs[i].nested) :
                          f.attrs[i].nested[k].m = "NameValue"
                          /\ f.attrs[i].nested[k].name = "rename"}} :
            i \in {k \in 1..Len(f.attrs) :
                      f.attrs[k].path = "serde" /\ f.attrs[k].form = "List"} }

ReportedUnder(f, key) ==
    IF Renames(f) = {} THEN key = f.ident ELSE key \in Renames(f) /\ key # f.ident

\* C7: every error of a field that carries a rename is recorded under the
\* renamed name and not under the declaration name, whether the rename stands
\* before or after the validate attributes; every error of a field without a
\* rename is recorded under the declaration name.
C7_ReportsUnderRename ==
    \A f \in Fields :
        /\ \A i \in 1..Len(errors) :
               errors[i].ident = f.ident => ReportedUnder(f, errors[i].key)
        /\ \A i \in 1..Len(result.errors) :
               result.errors[i].ident = f.ident => ReportedUnder(f, result.errors[i].key)

\* the schema intents declared on the struct, in declaration order
RECURSIVE SchemaIntents(_)
SchemaIntents(attrs) ==
    IF attrs = <<>> THEN <<>>
    ELSE ( IF Head(attrs).path = "validate" /\ Head(attrs).form = "List"
           THEN SelectSeq(Head(attrs).nested, LAMBDA item : item.name = "schema")
           ELSE <<>> ) \o SchemaIntents(Tail(attrs))

ArgOf(item, name) ==
    LET i == CHOOSE k \in 1..Len(item.nested) : item.nested[k].name = name
    IN  item.nested[i].lit.val

\* C8: the extractor returns one SchemaValidation for every schema intent on
\* the struct, in declaration order, also for the intents that share one
\* validate attribute; skip_on_field_errors is true and code and message are
\* absent where the intent does not declare them.
C8_OnePerSchemaIntent ==
    pc = "ready" =>
        /\ Len(out.schema_validations) = Len(SchemaIntents(decl.attrs))
        /\ \A k \in 1..Len(out.schema_validations) :
               k <= Len(SchemaIntents(decl.attrs)) =>
                   LET sv == out.schema_validations[k]
                       intent == SchemaIntents(decl.attrs)[k]
                   IN  /\ sv.function = ArgOf(intent, "function")
                       /\ ~DeclaresArg(intent, "skip_on_field_errors")
                              => sv.skip_on_field_errors
                       /\ ~DeclaresArg(intent, "code") => ~sv.code.some
                       /\ ~DeclaresArg(intent, "message") => ~sv.message.some

SchemaArgs == {"function", "skip_on_field_errors", "code", "message"}

NoValidator(attr) ==
    \/ attr.path \notin {"validate", "serde"}
    \/ attr.path = "serde" /\ attr.form = "List"
    \/ attr = Validate(<<>>)

TypeErrors ==
    {"email: not a string type", "url: not a string type", "length: type has no length",
     "range: type has no range", "must_match: types do not match"}

\* the type of f fails the check that goes with the intent
TypeIncompatible(f, intent) ==
    CASE intent.name \in {"email", "url"} -> field_type_name(f.ty) \notin StringTypes
      [] intent.name = "length" -> field_type_name(f.ty) \notin LenTypes
      [] intent.name = "range" -> field_type_name(f.ty) \notin RangeTypes
      [] intent.name = "must_match" ->
           \E j \in 1..Len(intent.nested) :
               /\ intent.nested[j].name = "other" /\ intent.nested[j].lit.kind = "Str"
               /\ ~SameType(f, intent.nested[j].lit.val)
      [] OTHER -> FALSE

\* the arguments of the intent, on their own, are in error
ArgumentError(intent) ==
    CASE intent.name \in {"email", "url"} ->
           extract_argless_validation(intent.name, intent.nested).abort
      [] intent.name = "length" -> extract_length_validation(intent.nested).abort
      [] intent.name = "range" -> extract_range_validation(intent.nested).abort
      [] intent.name = "must_match" ->
           extract_one_arg_validation("other", intent.name, intent.nested).abort
      [] OTHER -> FALSE

\* the one intent of a field whose one attribute is validate(intent)
SoleIntent(f) ==
    /\ Len(f.attrs) = 1
    /\ f.attrs[1].path = "validate" /\ f.attrs[1].form = "List"
    /\ Len(f.attrs[1].nested) = 1
    /\ f.attrs[1].nested[1].m = "List"

\* C11: an intent, written with an argument list, whose field fails the type
\* check of the intent and whose arguments are in error too, ends the
\* compilation with the error of the type check: the type is checked before
\* the arguments are resolved, for must_match(other = ...) as for length.
C11_TypeErrorFirst ==
    (pc # "derive" /\ \A g \in Fields : type_supported(g.ty)) =>
        \A f \in Fields :
            ( /\ SoleIntent(f)
              /\ TypeIncompatible(f, f.attrs[1].nested[1])
              /\ ArgumentError(f.attrs[1].nested[1]) )
            => out.abort /\ out.msg \in TypeErrors

\* the renames of a list of items, in declaration order, read at the level of
\* the list and, when depth allows, inside its grouping items
RECURSIVE RenamesIn(_, _)
RenamesIn(items, depth) ==
    IF items = <<>> THEN <<>>
    ELSE LET item == Head(items)
         IN  ( CASE item.m = "NameValue" /\ item.name = "rename" -> <<item.lit.val>>
                 [] item.m = "List" /\ depth > 0 -> RenamesIn(item.nested, depth - 1)
                 [] OTHER -> <<>> ) \o RenamesIn(Tail(items), depth)

\* the renames of the serde(...) attributes of a field, in declaration order,
\* read at the top level and one level of grouping deep
RECURSIVE RenamesOf(_)
RenamesOf(attrs) ==
    IF attrs = <<>> THEN <<>>
    ELSE ( IF Head(attrs).path = "serde" /\ Head(attrs).form = "List"
           THEN RenamesIn(Head(attrs).nested, 1)
           ELSE <<>> ) \o RenamesOf(Tail(attrs))

FirstRename(f, renames) == IF renames = <<>> THEN f.ident ELSE renames[1]

\* C12: the external name of a field is the first rename in declaration order
\* among its serde attributes, read at the top level and exactly one level of
\* grouping deep: a rename after a grouping item without one is found, one
\* two levels deep is not used, and the earliest of several renames is taken.
C12_FirstRenameOneLevel ==
    pc = "ready" =>
        \A f \in Fields : \A q \in Quoted(f.ident) :
            q.name = FirstRename(f, RenamesOf(f.attrs))

\* the declaration with the serde attributes of its fields removed
WithoutSerde(ast) ==
    [ast EXCEPT !.fields =
         [i \in 1..Len(ast.fields) |->
              [ast.fields[i] EXCEPT !.attrs = SelectSeq(@, LAMBDA a : a.path # "serde")]]]

\* the validators of a quoted list, without the names they are quoted under
ValidatorsOf(quoted) ==
    [i \in 1..Len(quoted) |-> [ident |-> quoted[i].ident, validation |-> quoted[i].validation]]

SameValidators(r, r0) ==
    /\ r.abort = r0.abort
    /\ ValidatorsOf(r.validations) = ValidatorsOf(r0.validations)
    /\ ValidatorsOf(r.nested_validations) = ValidatorsOf(r0.nested_validations)

\* C13: the serde attributes of a field, whatever their shape, a bare
\* #[serde] included, give it no validator: the expansion holds the
\* validators it would hold with every serde attribute removed.
C13_SerdeAddsNoValidator ==
    pc # "derive" => SameValidators(out, impl_validate(WithoutSerde(decl)))

====
